---- MODULE Spec2Model ----
(***************************************************************************)
(* The repository-metrics collector of src/src/gh_client.py:               *)
(*   _safe_request      the resilient request executor (retry, rate limit) *)
(*   _collect_* / _fetch_closed_issues_for_average   the page walks        *)
(*   get_gh_data        the sequential batch loop over the input rows      *)
(* The upstream API and the clock are the environment: every attempt of    *)
(* every request draws its result (a response, or a transport failure)     *)
(* and every clock reading from small sets.                                *)
(***************************************************************************)
EXTENDS Integers, Sequences, FiniteSets, TLC

VARIABLES
    rows,       \* df: the input rows, each the value of its Github_links cell
    idx,        \* position of the for loop of get_gh_data in rows (1-based)
    repo_data,  \* repo_data: the records appended so far
    output,     \* ./data/repo_data.csv: written flag and the records written
    pc,         \* where the program is: loop, call, ret, walked, done, raised
    req,        \* the request _safe_request is executing: kind, page, q
    i,          \* _safe_request: number of loop iterations started (for _ in range(5))
    nreq,       \* history: session.get calls issued by the current call
    resp,       \* _safe_request: the local resp (unbound until a response arrives)
    last,       \* history: what the latest attempt ended in: none, exc, resp
    slept,      \* history: the time.sleep made after the latest attempt
    allRL,      \* history: every attempt of the current call was a rate-limited 403
    page,       \* page walk: the local page
    acc,        \* page walk: the local commits / results
    asked,      \* history: page numbers the current walk has requested
    got,        \* history: outcome (status, items) the current walk obtained per page
    reqRows,    \* history: rows for which an HTTP request was issued
    infoOK,     \* history: rows whose repository-info request returned 200
    infoStatus, \* history: the status each repository-info call returned, by row
    kindsAsked, \* history: (row, kind) of every HTTP request issued
    fetched,    \* SpecAgg: the response each helper of one repository ended with
    agg         \* SpecAgg: the locals of get_gh_data after the aggregation loops

vars == <<rows, idx, repo_data, output, pc, req, i, nreq, resp, last, slept,
          allRL, page, acc, asked, got, reqRows, infoOK, infoStatus, kindsAsked,
          fetched, agg>>

execVars == <<i, nreq, resp, last, slept, allRL>>
walkVars == <<page, acc, asked, got>>
aggVars == <<fetched, agg>>

----------------------------------------------------------------------------
(* Bounds of the model *)

MaxRows == 2          \* Spec: input lists have 1..MaxRows rows
MaxRepoPages == 1     \* Spec: the upstream serves full pages up to this page number
MaxFullPages == 11    \* SpecWalk: the upstream serves full pages up to this page number
MaxTime == 5          \* SpecExec: clock readings and reset timestamps are 0..MaxTime
MaxCommits == 2       \* SpecAgg: a fetched commit list has 0..MaxCommits records
MaxIssues == 2        \* SpecAgg: a fetched closed-issue list has 0..MaxIssues records
NowDay == 200         \* SpecAgg: the day (since an epoch) of datetime.now(timezone.utc)

(* Constants of the program *)

MaxAttempts == 5      \* for _ in range(5)
PerPage == 100        \* 'per_page': 100
MaxSearchPages == 10  \* page >= 10
RetryDelayMs == 1500  \* time.sleep(1.5)
WindowDays == 180     \* timedelta(days=180)
SecondsPerDay == 86400 \* total_seconds() / 86400.0

----------------------------------------------------------------------------
(* Values *)

None == "None"
NoReset == -1         \* resp.headers.get('X-RateLimit-Reset') is None or ''

Max(a, b) == IF a >= b THEN a ELSE b

\* A requests.Response: status code, the two rate-limit headers, parsed body.
Response(st, rem, rs, b) ==
    [bound |-> TRUE, status |-> st, remaining |-> rem, reset |-> rs, body |-> b]

\* The local resp of _safe_request before any assignment to it.
NoResp ==
    [bound |-> FALSE, status |-> 0, remaining |-> None, reset |-> NoReset, body |-> <<>>]

NoSleep == [ms |-> 0, now |-> 0]

----------------------------------------------------------------------------
(* The upstream API: what one attempt of a request can end in *)

WalkKinds == {"since", "all", "closed"}
ProbeKinds == {"count", "latest"}

\* Items (k-1)*PerPage+1 .. (k-1)*PerPage+n of a result set: page k, n items,
\* in upstream order.
Batch(k, n) == [j \in 1..n |-> (k - 1) * PerPage + j]

\* An upstream profile U bounds what the environment draws from: the clock
\* readings and reset timestamps (U.times), the lengths of a short page
\* (U.lens) and the last page number that can be a full page (U.full).
ExecUpstream == [times |-> 0..MaxTime, lens |-> {0, 50}, full |-> 1]
WalkUpstream == [times |-> {0}, lens |-> {0, 1, 50, 99}, full |-> MaxFullPages]
RepoUpstream == [times |-> {0}, lens |-> {0, 50}, full |-> MaxRepoPages]

\* Lengths of the page the upstream may serve for page p: a short page, or a
\* full one while its result set lasts.
PageLens(p, U) == U.lens \cup (IF p <= U.full THEN {PerPage} ELSE {})

\* The JSON document of an error response ({"message":..,"documentation_url":..});
\* as a sequence it stands for what iterating the dict yields (its keys).
ErrorDoc == <<-1, -2>>

\* Bodies of a successful response to request r.
Bodies(r, U) ==
    CASE r.kind = "repo"   -> {[created_at |-> "2020-01-01T00:00:00Z"]}
      [] r.kind \in ProbeKinds -> {Batch(1, n) : n \in {0, 1}}
      [] r.kind = "search" -> {[total_count |-> n] : n \in {0, 3}}
      [] r.kind = "closed" -> {[total_count |-> n, items |-> Batch(r.page, n)] : n \in PageLens(r.page, U)}
                                \cup {[total_count |-> 0]}
      [] OTHER             -> {Batch(r.page, n) : n \in PageLens(r.page, U)}

ErrorBody(r) == IF r.kind \in {"closed", "search", "repo"} THEN [message |-> -1] ELSE ErrorDoc

Remainings == {"0", "1", None}
Resets(U) == {NoReset} \cup U.times

\* resp.status_code == 403 with remaining == '0' and a reset header
IsRateLimit(r) ==
    r.bound /\ r.status = 403 /\ r.remaining = "0" /\ r.reset # NoReset

\* One attempt ends in a transport-level failure (requests.exceptions.
\* RequestException) or in a response.  The rate-limit headers are drawn for 403
\* responses only (the code reads them on no other status) and the clock
\* reading only where _respect_rate_limit reads it.
Outcomes(r, U) ==
    {[kind |-> "exc", resp |-> NoResp, now |-> 0]}
    \cup {[kind |-> "resp", resp |-> Response(st, None, NoReset, b), now |-> 0] :
            st \in {200, 201}, b \in Bodies(r, U)}
    \cup {[kind |-> "resp", resp |-> Response(st, None, NoReset, ErrorBody(r)), now |-> 0] :
            st \in {404, 500}}
    \cup {o \in [kind : {"resp"},
                 resp : {Response(403, rem, rs, ErrorBody(r)) : rem \in Remainings, rs \in Resets(U)},
                 now : U.times] :
            IsRateLimit(o.resp) \/ o.now = 0}

----------------------------------------------------------------------------
(* _respect_rate_limit and _safe_request *)

\* Mutant of SleepSec: the one-second margin is forgotten.
SleepSecNoMargin(reset_ts, now) == Max(0, reset_ts - now)

\* sleep_sec = max(0, reset_ts - now) + 1
SleepSec(reset_ts, now) == Max(0, reset_ts - now) + 1

\* _respect_rate_limit(resp): milliseconds slept
RespectRateLimit(r, now) ==
    IF r.status = 403 /\ r.remaining = "0" /\ r.reset # NoReset
    THEN 1000 * SleepSec(r.reset, now)
    ELSE 0

\* Mutant of IsSuccess: a 201 is not returned early.
IsSuccessOnly200(st) == st = 200

\* resp.status_code in (200, 201)
IsSuccess(st) == st \in {200, 201}

\* Mutant of NextAttempt: a rate-limit wait does not consume an attempt.
NextAttemptFreeWait(n, o) == IF o.kind = "resp" /\ IsRateLimit(o.resp) THEN n ELSE n + 1

\* for _ in range(5): every iteration, however it ends, consumes one step
NextAttempt(n, o) == n + 1

\* What the loop body does with outcome o: the sleep it makes (ms).
SleepAfter(o) ==
    IF o.kind = "exc" THEN RetryDelayMs
    ELSE IF o.resp.status = 403 THEN RespectRateLimit(o.resp, o.now)
    ELSE IF IsSuccess(o.resp.status) THEN 0
    ELSE RetryDelayMs

\* Entry of _safe_request(session, url, params)
StartCall(kind, p, q) ==
    /\ pc' = "call"
    /\ req' = [kind |-> kind, page |-> p, q |-> q]
    /\ i' = 0
    /\ nreq' = 0
    /\ resp' = NoResp
    /\ last' = "none"
    /\ slept' = NoSleep
    /\ allRL' = TRUE

\* One iteration of the loop of _safe_request, and, when it is the last one,
\* the return resp after the loop: an unbound resp raises UnboundLocalError,
\* which nothing in get_gh_data catches.
Attempt(U) ==
    /\ pc = "call"
    /\ i < MaxAttempts
    /\ \E o \in Outcomes(req, U) :
        LET resp1 == IF o.kind = "resp" THEN o.resp ELSE resp
            returns == o.kind = "resp" /\ IsSuccess(o.resp.status)
            i1 == NextAttempt(i, o)
        IN  /\ resp' = resp1
            /\ last' = o.kind
            /\ nreq' = nreq + 1
            /\ i' = i1
            /\ slept' = [ms |-> SleepAfter(o), now |-> o.now]
            /\ allRL' = (allRL /\ IsRateLimit(resp1) /\ o.kind = "resp")
            /\ pc' = IF returns THEN "ret"
                     ELSE IF i1 < MaxAttempts THEN "call"
                     ELSE IF resp1.bound THEN "ret"
                     ELSE "raised"
    /\ reqRows' = reqRows \cup {idx}
    /\ UNCHANGED <<rows, idx, repo_data, output, req, infoOK>>
    /\ kindsAsked' = kindsAsked \cup {<<idx, req.kind>>}
    /\ UNCHANGED infoStatus
    /\ UNCHANGED aggVars
    /\ UNCHANGED walkVars

\* The locals of a finished call go out of scope.
EndCall ==
    /\ req' = [kind |-> "none", page |-> 0, q |-> 0]
    /\ i' = 0
    /\ nreq' = 0
    /\ resp' = NoResp
    /\ last' = "none"
    /\ slept' = NoSleep
    /\ allRL' = TRUE

----------------------------------------------------------------------------
(* The page walks: _collect_commits_since, _collect_all_commits,            *)
(* _fetch_closed_issues_for_average                                         *)

\* Mutant of PageOK: the status of a page response is not inspected.
PageOKUnchecked(r) == r.bound

\* if resp.status_code != 200: break
PageOK(r) == r.status = 200

\* batch = resp.json()   /   items = data.get('items', [])
Items(kind, r) ==
    IF kind = "closed"
    THEN IF "items" \in DOMAIN r.body THEN r.body.items ELSE <<>>
    ELSE r.body

\* commits.extend(batch)
Extend(a, b) == a \o b

\* Mutant of LastPage: a full page ends the walk too (<= for <).
LastPageInclusive(kind, batch, p) ==
    Len(batch) <= PerPage \/ (kind = "closed" /\ p >= MaxSearchPages)

\* Mutant of LastPage: the search walk has no page ceiling.
LastPageNoCeiling(kind, batch, p) == Len(batch) < PerPage

\* if len(batch) < 100: break   /   if len(items) < 100 or page >= 10: break
LastPage(kind, batch, p) ==
    Len(batch) < PerPage \/ (kind = "closed" /\ p >= MaxSearchPages)

\* Mutant of NextPage: a page number is skipped.
NextPageSkip(p) == p + 2

\* page += 1
NextPage(p) == p + 1

\* What the upstream served on a page: the items of a 2xx answer, nothing on an error.
Served(kind, r) == IF IsSuccess(r.status) THEN Items(kind, r) ELSE <<>>

NoWalk ==
    /\ page' = 0
    /\ acc' = <<>>
    /\ asked' = <<>>
    /\ got' = <<>>

\* commits = []; page = 1; first iteration of while True
StartWalk(kind) ==
    /\ page' = 1
    /\ acc' = <<>>
    /\ asked' = <<1>>
    /\ got' = <<>>
    /\ StartCall(kind, 1, 0)

\* The body of while True after _safe_request has returned.
PageReturn ==
    /\ pc = "ret"
    /\ req.kind \in WalkKinds
    /\ got' = Append(got, [page |-> page, status |-> resp.status,
                           items |-> Served(req.kind, resp)])
    /\ LET batch == Items(req.kind, resp)
       IN  IF ~PageOK(resp) \/ batch = <<>>
           THEN /\ pc' = "walked"
                /\ UNCHANGED <<page, acc, asked, req>>
                /\ UNCHANGED execVars
           ELSE /\ acc' = Extend(acc, batch)
                /\ IF LastPage(req.kind, batch, page)
                   THEN /\ pc' = "walked"
                        /\ UNCHANGED <<page, asked, req>>
                        /\ UNCHANGED execVars
                   ELSE /\ page' = NextPage(page)
                        /\ asked' = Append(asked, page')
                        /\ StartCall(req.kind, page', req.q)
    /\ UNCHANGED <<rows, idx, repo_data, output, reqRows, infoOK>>
    /\ UNCHANGED <<infoStatus, kindsAsked>>
    /\ UNCHANGED aggVars

----------------------------------------------------------------------------
(* get_gh_data *)

\* A Github_links cell: NaN (a float, for an empty cell) or a string, here a
\* sequence of pieces: "/" is one slash, "https://" a piece that holds slashes,
\* every other piece a non-empty run of characters other than "/".
NaN == [isstr |-> FALSE, text |-> <<>>]
Str(t) == [isstr |-> TRUE, text |-> t]

Links ==
    { NaN,
      Str(<<"https://", "itch.io", "/", "o", "/", "r">>),
      Str(<<"https://", "github.com", "/", "o">>),
      Str(<<"https://", "github.com", "/", "o", "/", "r">>) }

NoSlash(t) == t \notin {"/", "https://"}

\* Mutant of PatternSearch: the pattern asks for an owner only,
\* r'github\.com/([^/]+)'.
PatternSearchOwnerOnly(t) ==
    \E p \in 1..Len(t) :
        /\ t[p] = "github.com"
        /\ p + 1 <= Len(t) /\ t[p + 1] = "/"
        /\ p + 2 <= Len(t) /\ NoSlash(t[p + 2])

\* pattern.search(github_url) for r'github\.com/([^/]+)/([^/]+)'
PatternSearch(t) ==
    \E p \in 1..Len(t) :
        /\ t[p] = "github.com"
        /\ p + 1 <= Len(t) /\ t[p + 1] = "/"
        /\ \E q \in (p + 3)..Len(t) :
            /\ \A j \in (p + 2)..(q - 1) : NoSlash(t[j])
            /\ t[q] = "/"
            /\ q + 1 <= Len(t) /\ NoSlash(t[q + 1])

\* isinstance(github_url, str) and pattern.search(github_url)
Resolves(link) == link.isstr /\ PatternSearch(link.text)

\* for _, row in df.iterrows(): Resolve, then the repository-info request
NextRow ==
    /\ pc = "loop"
    /\ idx <= Len(rows)
    /\ IF Resolves(rows[idx])
       THEN /\ StartCall("repo", 0, 0)
            /\ UNCHANGED idx
       ELSE /\ idx' = idx + 1
            /\ UNCHANGED <<pc, req>>
            /\ UNCHANGED execVars
    /\ UNCHANGED <<rows, repo_data, output, reqRows, infoOK>>
    /\ UNCHANGED <<infoStatus, kindsAsked>>
    /\ UNCHANGED aggVars
    /\ UNCHANGED walkVars

\* Mutant of RepoInfoReturn: only a 404 skips the repository.
RepoInfoReturnOnly404 ==
    /\ pc = "ret"
    /\ req.kind = "repo"
    /\ IF resp.status = 404
       THEN /\ idx' = idx + 1
            /\ pc' = "loop"
            /\ EndCall
            /\ UNCHANGED infoOK
       ELSE /\ infoOK' = Append(infoOK, idx)
            /\ StartCall("count", 0, 0)
            /\ UNCHANGED idx
    /\ UNCHANGED <<rows, repo_data, output, reqRows>>
    /\ infoStatus' = Append(infoStatus, [row |-> idx, status |-> resp.status])
    /\ UNCHANGED kindsAsked
    /\ UNCHANGED aggVars
    /\ UNCHANGED walkVars

\* repo_resp = _safe_request(session, repo_api); if != 200: continue
RepoInfoReturn ==
    /\ pc = "ret"
    /\ req.kind = "repo"
    /\ IF resp.status # 200
       THEN /\ idx' = idx + 1
            /\ pc' = "loop"
            /\ EndCall
            /\ UNCHANGED infoOK
       ELSE /\ infoOK' = Append(infoOK, idx)
            /\ StartCall("count", 0, 0)
            /\ UNCHANGED idx
    /\ UNCHANGED <<rows, repo_data, output, reqRows>>
    /\ infoStatus' = Append(infoStatus, [row |-> idx, status |-> resp.status])
    /\ UNCHANGED kindsAsked
    /\ UNCHANGED aggVars
    /\ UNCHANGED walkVars

\* total_commits = _get_total_commits_count(..); then _get_latest_commit_date
CountReturn ==
    /\ pc = "ret"
    /\ req.kind = "count"
    /\ StartCall("latest", 0, 0)
    /\ UNCHANGED <<rows, idx, repo_data, output, reqRows, infoOK>>
    /\ UNCHANGED <<infoStatus, kindsAsked>>
    /\ UNCHANGED aggVars
    /\ UNCHANGED walkVars

\* Mutant of LatestReturn: the walk of the recent commits is left out.
LatestReturnSkipSince ==
    /\ pc = "ret"
    /\ req.kind = "latest"
    /\ StartWalk("all")
    /\ UNCHANGED <<rows, idx, repo_data, output, reqRows, infoOK>>
    /\ UNCHANGED <<infoStatus, kindsAsked>>
    /\ UNCHANGED aggVars

\* latest_commit_date = ..; then recent_commits = _collect_commits_since(..)
LatestReturn ==
    /\ pc = "ret"
    /\ req.kind = "latest"
    /\ StartWalk("since")
    /\ UNCHANGED <<rows, idx, repo_data, output, reqRows, infoOK>>
    /\ UNCHANGED <<infoStatus, kindsAsked>>
    /\ UNCHANGED aggVars

\* _collect_commits_since has returned; then all_commits = _collect_all_commits(..)
SinceReturn ==
    /\ pc = "walked"
    /\ req.kind = "since"
    /\ StartWalk("all")
    /\ UNCHANGED <<rows, idx, repo_data, output, reqRows, infoOK>>
    /\ UNCHANGED <<infoStatus, kindsAsked>>
    /\ UNCHANGED aggVars

\* _collect_all_commits has returned; then the first _search_issues_count
AllReturn ==
    /\ pc = "walked"
    /\ req.kind = "all"
    /\ NoWalk
    /\ StartCall("search", 0, 1)
    /\ UNCHANGED <<rows, idx, repo_data, output, reqRows, infoOK>>
    /\ UNCHANGED <<infoStatus, kindsAsked>>
    /\ UNCHANGED aggVars

\* the four _search_issues_count calls, then _fetch_closed_issues_for_average
SearchReturn ==
    /\ pc = "ret"
    /\ req.kind = "search"
    /\ IF req.q < 4
       THEN /\ StartCall("search", 0, req.q + 1)
            /\ UNCHANGED walkVars
       ELSE StartWalk("closed")
    /\ UNCHANGED <<rows, idx, repo_data, output, reqRows, infoOK>>
    /\ UNCHANGED <<infoStatus, kindsAsked>>
    /\ UNCHANGED aggVars

\* Mutant of Emit: the record is put in front of the list.
EmitPrepend ==
    /\ pc = "walked"
    /\ req.kind = "closed"
    /\ repo_data' = <<[row |-> idx]>> \o repo_data
    /\ idx' = idx + 1
    /\ pc' = "loop"
    /\ EndCall
    /\ NoWalk
    /\ UNCHANGED <<rows, output, reqRows, infoOK>>
    /\ UNCHANGED <<infoStatus, kindsAsked>>
    /\ UNCHANGED aggVars

\* Mutant of Emit: the record is emitted and the loop moves on without waiting
\* for the outcome of the closed-issue request.
EmitNoWait ==
    /\ pc \in {"walked", "call"}
    /\ req.kind = "closed"
    /\ repo_data' = Append(repo_data, [row |-> idx])
    /\ idx' = idx + 1
    /\ pc' = "loop"
    /\ EndCall
    /\ NoWalk
    /\ UNCHANGED <<rows, output, reqRows, infoOK>>
    /\ UNCHANGED <<infoStatus, kindsAsked>>
    /\ UNCHANGED aggVars

\* _fetch_closed_issues_for_average has returned: aggregate, repo_data.append(..),
\* next row.  The record stands for row.to_dict() | {..}: it is identified by
\* its input row.
Emit ==
    /\ pc = "walked"
    /\ req.kind = "closed"
    /\ repo_data' = Append(repo_data, [row |-> idx])
    /\ idx' = idx + 1
    /\ pc' = "loop"
    /\ EndCall
    /\ NoWalk
    /\ UNCHANGED <<rows, output, reqRows, infoOK>>
    /\ UNCHANGED <<infoStatus, kindsAsked>>
    /\ UNCHANGED aggVars

\* repo_data_df.to_csv('./data/repo_data.csv')
WriteOutput ==
    /\ pc = "loop"
    /\ idx > Len(rows)
    /\ output' = [written |-> TRUE, records |-> repo_data]
    /\ pc' = "done"
    /\ UNCHANGED <<rows, idx, repo_data, req, reqRows, infoOK>>
    /\ UNCHANGED <<infoStatus, kindsAsked>>
    /\ UNCHANGED aggVars
    /\ UNCHANGED execVars
    /\ UNCHANGED walkVars

----------------------------------------------------------------------------
(* The values the aggregation of one repository works on *)

\* A value that may be None.
Nothing == [some |-> FALSE, v |-> 0]
Just(x) == [some |-> TRUE, v |-> x]

\* A timestamp field of a JSON document: missing or null ("none"), a string
\* datetime.fromisoformat rejects ("bad"), or an ISO-8601 UTC string, here by
\* its day since the epoch and its second of the day.
NoDate == [kind |-> "none", day |-> 0, sec |-> 0]
BadDate == [kind |-> "bad", day |-> 0, sec |-> 0]
Iso(d, sc) == [kind |-> "iso", day |-> d, sec |-> sc]

\* if date_str: / if created_at: -- None and '' are false
Truthy(ds) == ds.kind # "none"

\* datetime.fromisoformat(s.replace('Z', '+00:00')): seconds since the epoch,
\* Nothing where it raises ValueError
FromIso(ds) ==
    IF ds.kind = "iso" THEN Just(ds.day * SecondsPerDay + ds.sec) ELSE Nothing

\* datetime.now(timezone.utc), and six_months_ago = now - timedelta(days=180)
NowSec == NowDay * SecondsPerDay
SixMonthsAgo == NowSec - WindowDays * SecondsPerDay
BoundaryDay == NowDay - WindowDays

\* A commit of the commits endpoint: author.login, committer.login,
\* commit.committer.email ("" where the field is missing, null or empty) and
\* commit.committer.date.
Commit(a, c, m, d) == [author_login |-> a, committer_login |-> c, email |-> m, date |-> d]

\* An issue of the search endpoint: created_at and closed_at.
Issue(c, x) == [created_at |-> c, closed_at |-> x]

----------------------------------------------------------------------------
(* The helpers that read one response *)

RECURSIVE LastRelPage(_, _)
\* for part in link.split(','): if 'rel="last"' in part: last_page = int(page)
\* (None where the part has no page parameter)
LastRelPage(parts, found) ==
    IF parts = <<>> THEN found
    ELSE LastRelPage(Tail(parts),
                     IF Head(parts).rel = "last"
                     THEN (IF Head(parts).page > 0 THEN Just(Head(parts).page) ELSE Nothing)
                     ELSE found)

\* Mutant of GetTotalCommitsCount: the Link header is not read.
GetTotalCommitsCountNoLink(r) ==
    IF r.status # 200 THEN Nothing ELSE Just(Len(r.body))

\* _get_total_commits_count: None unless 200; len(data) without a Link header;
\* else the page of the rel="last" link
GetTotalCommitsCount(r) ==
    IF r.status # 200 THEN Nothing
    ELSE IF r.link = <<>> THEN Just(Len(r.body))
    ELSE LastRelPage(r.link, Nothing)

\* _get_latest_commit_date: None unless 200 with a non-empty list; else
\* data[0].commit.committer.date
GetLatestCommitDate(r) ==
    IF r.status # 200 THEN NoDate
    ELSE IF r.body = <<>> THEN NoDate
    ELSE r.body[1].date

\* _search_issues_count: None unless 200; else resp.json().get('total_count')
SearchIssuesCount(r) ==
    IF r.status # 200 THEN Nothing ELSE Just(r.body.total_count)

\* A page walk whose first page is its last: [] unless 200, else the items
\* (PageReturn on a page of fewer than 100 items).
OnePageWalk(kind, r) == IF PageOK(r) THEN Items(kind, r) ELSE <<>>

----------------------------------------------------------------------------
(* The aggregation loops of get_gh_data *)

\* Mutant of InWindow: a commit without a readable date is counted.
InWindowCountsUndated(c) ==
    \/ ~Truthy(c.date)
    \/ ~FromIso(c.date).some
    \/ FromIso(c.date).v >= SixMonthsAgo

\* Mutant of InWindow: the lower bound of the window is exclusive.
InWindowExclusive(c) ==
    /\ Truthy(c.date)
    /\ FromIso(c.date).some
    /\ FromIso(c.date).v > SixMonthsAgo

\* if not date_str: continue; try: dt = fromisoformat(..) except ValueError:
\* continue; if dt >= six_months_ago: commits_last_6m += 1
InWindow(c) ==
    /\ Truthy(c.date)
    /\ FromIso(c.date).some
    /\ FromIso(c.date).v >= SixMonthsAgo

RECURSIVE CountInWindow(_)
CountInWindow(cs) ==
    IF cs = <<>> THEN 0
    ELSE (IF InWindow(Head(cs)) THEN 1 ELSE 0) + CountInWindow(Tail(cs))

\* Mutant of Identity: a commit without a login is "unknown", whatever its email.
IdentityNoEmail(c) ==
    IF c.author_login # "" THEN c.author_login
    ELSE IF c.committer_login # "" THEN c.committer_login
    ELSE "unknown"

\* login = author.login or committer.login; if not login: login = email or 'unknown'
Identity(c) ==
    IF c.author_login # "" THEN c.author_login
    ELSE IF c.committer_login # "" THEN c.committer_login
    ELSE IF c.email # "" THEN c.email
    ELSE "unknown"

\* for c in all_commits: unique_committers.add(login)
UniqueCommitters(cs) == {Identity(cs[k]) : k \in 1..Len(cs)}

\* Mutant of Qualifies: a negative delta is averaged too.
QualifiesAnyDelta(it) ==
    /\ Truthy(it.created_at) /\ Truthy(it.closed_at)
    /\ FromIso(it.created_at).some /\ FromIso(it.closed_at).some
    /\ FromIso(it.closed_at).v >= SixMonthsAgo

\* The issues whose delta enters close_deltas: both timestamps present and
\* parsed, xdt >= six_months_ago, delta_days >= 0.
Qualifies(it) ==
    /\ Truthy(it.created_at) /\ Truthy(it.closed_at)
    /\ FromIso(it.created_at).some /\ FromIso(it.closed_at).some
    /\ FromIso(it.closed_at).v >= SixMonthsAgo
    /\ FromIso(it.closed_at).v - FromIso(it.created_at).v >= 0

RECURSIVE CloseDeltas(_)
\* close_deltas, in seconds (delta_days * 86400)
CloseDeltas(its) ==
    IF its = <<>> THEN <<>>
    ELSE (IF Qualifies(Head(its))
          THEN <<FromIso(Head(its).closed_at).v - FromIso(Head(its).created_at).v>>
          ELSE <<>>) \o CloseDeltas(Tail(its))

RECURSIVE SumSeq(_)
SumSeq(q) == IF q = <<>> THEN 0 ELSE Head(q) + SumSeq(Tail(q))

\* round(num / den, 2) in hundredths, for num >= 0 and den > 0: Python rounds
\* a tie to the even neighbour.
RoundHundredths(num, den) ==
    LET q == (100 * num) \div den
        r == (100 * num) % den
    IN  IF 2 * r < den THEN q
        ELSE IF 2 * r > den THEN q + 1
        ELSE IF q % 2 = 0 THEN q ELSE q + 1

\* avg_issue_close_time_days = round(sum(close_deltas) / len(close_deltas), 2)
\* if close_deltas else None     (hundredths of a day)
AvgCloseTime(its) ==
    LET ds == CloseDeltas(its)
    IN  IF ds = <<>> THEN Nothing
        ELSE Just(RoundHundredths(SumSeq(ds), SecondsPerDay * Len(ds)))

\* repo_age_days: None without created_at; the try block sets it, and the
\* except ValueError of either fromisoformat resets it to None
RepoAgeDays(created_at, latest) ==
    IF ~Truthy(created_at) THEN Nothing
    ELSE IF ~FromIso(created_at).some THEN Nothing
    ELSE IF Truthy(latest) /\ ~FromIso(latest).some THEN Nothing
    ELSE Just((NowSec - FromIso(created_at).v) \div SecondsPerDay)

\* Mutant of DaysOfActivity: an activity span that cannot be computed is 0.
DaysOfActivityZero(created_at, latest) ==
    IF Truthy(created_at) /\ FromIso(created_at).some /\ Truthy(latest) /\ FromIso(latest).some
    THEN Just((FromIso(latest).v - FromIso(created_at).v) \div SecondsPerDay)
    ELSE Just(0)

\* days_of_activity = (latest_commit_dt - created_dt).days, when both parse
DaysOfActivity(created_at, latest) ==
    IF ~Truthy(created_at) THEN Nothing
    ELSE IF ~FromIso(created_at).some THEN Nothing
    ELSE IF ~Truthy(latest) THEN Nothing
    ELSE IF ~FromIso(latest).some THEN Nothing
    ELSE Just((FromIso(latest).v - FromIso(created_at).v) \div SecondsPerDay)

\* x if x is not None else d
OrElse(x, d) == IF x.some THEN x ELSE d

\* Mutant of Aggregated: without a commit count the issue counts are dropped.
AggregatedCoupled(f) ==
    LET latest == GetLatestCommitDate(f.latest)
        created == f.info.body.created_at
        counted == GetTotalCommitsCount(f.count).some
    IN  [total_commits |-> GetTotalCommitsCount(f.count),
         latest_commit_date |-> latest,
         commits_last_6m |-> CountInWindow(OnePageWalk("since", f.since)),
         unique_committers |-> UniqueCommitters(OnePageWalk("all", f.all)),
         total_issues |-> IF counted THEN SearchIssuesCount(f.total) ELSE Nothing,
         open_issues |-> SearchIssuesCount(f.open),
         closed_issues |-> SearchIssuesCount(f.closed_count),
         issues_opened_last_6m |-> SearchIssuesCount(f.opened),
         avg_issue_close_time_days |-> AvgCloseTime(OnePageWalk("closed", f.closed)),
         created_at |-> created,
         repo_age_days |-> RepoAgeDays(created, latest),
         days_of_activity |-> DaysOfActivity(created, latest)]

\* The locals of get_gh_data after its loops (lines 171-231).
Aggregated(f) ==
    LET latest == GetLatestCommitDate(f.latest)
        created == f.info.body.created_at
    IN  [total_commits |-> GetTotalCommitsCount(f.count),
         latest_commit_date |-> latest,
         commits_last_6m |-> CountInWindow(OnePageWalk("since", f.since)),
         unique_committers |-> UniqueCommitters(OnePageWalk("all", f.all)),
         total_issues |-> SearchIssuesCount(f.total),
         open_issues |-> SearchIssuesCount(f.open),
         closed_issues |-> SearchIssuesCount(f.closed_count),
         issues_opened_last_6m |-> SearchIssuesCount(f.opened),
         avg_issue_close_time_days |-> AvgCloseTime(OnePageWalk("closed", f.closed)),
         created_at |-> created,
         repo_age_days |-> RepoAgeDays(created, latest),
         days_of_activity |-> DaysOfActivity(created, latest)]

\* Mutant of Record: the count of open issues has the default of the other counts.
RecordOpenZero(r, info, a) ==
    [row |-> r,
     language |-> info.language,
     createdAt |-> a.created_at,
     repoAge |-> a.repo_age_days,
     forks |-> info.forks_count,
     watchers |-> info.watchers_count,
     stars |-> info.stargazers_count,
     openIssues |-> OrElse(a.open_issues, Just(0)),
     closedIssues |-> OrElse(a.closed_issues, Just(0)),
     totalIssues |-> OrElse(a.total_issues, Just(0)),
     issuesOpenedLast6Months |-> OrElse(a.issues_opened_last_6m, Just(0)),
     AvgIssueCloseTime |-> OrElse(a.avg_issue_close_time_days, Just(0)),
     commits |-> a.total_commits,
     dateOfLastCommit |-> a.latest_commit_date,
     daysOfActivity |-> a.days_of_activity,
     commitsInLast6Months |-> Just(a.commits_last_6m),
     committersParticipation |-> Just(Cardinality(a.unique_committers))]

\* row.to_dict() | {...}: the record of one repository (lines 233-252)
Record(r, info, a) ==
    [row |-> r,
     language |-> info.language,
     createdAt |-> a.created_at,
     repoAge |-> a.repo_age_days,
     forks |-> info.forks_count,
     watchers |-> info.watchers_count,
     stars |-> info.stargazers_count,
     openIssues |-> OrElse(a.open_issues, info.open_issues_count),
     closedIssues |-> OrElse(a.closed_issues, Just(0)),
     totalIssues |-> OrElse(a.total_issues, Just(0)),
     issuesOpenedLast6Months |-> OrElse(a.issues_opened_last_6m, Just(0)),
     AvgIssueCloseTime |-> OrElse(a.avg_issue_close_time_days, Just(0)),
     commits |-> a.total_commits,
     dateOfLastCommit |-> a.latest_commit_date,
     daysOfActivity |-> a.days_of_activity,
     commitsInLast6Months |-> Just(a.commits_last_6m),
     committersParticipation |-> Just(Cardinality(a.unique_committers))]

\* The loops over the fetched lists and the date arithmetic (lines 171-231).
Aggregate ==
    /\ pc = "fetched"
    /\ agg' = Aggregated(fetched)
    /\ pc' = "aggregated"
    /\ UNCHANGED <<rows, idx, repo_data, output, req, reqRows, infoOK, fetched>>
    /\ UNCHANGED <<infoStatus, kindsAsked>>
    /\ UNCHANGED execVars
    /\ UNCHANGED walkVars

\* Mutant of EmitRecord: the record names one committer, whichever the
\* iteration of the set unique_committers yields first.
EmitRecordSetOrder ==
    /\ pc = "aggregated"
    /\ \E c \in agg.unique_committers \cup {"unknown"} :
          repo_data' = Append(repo_data,
              [Record(idx, fetched.info.body, agg) EXCEPT !.language = c])
    /\ idx' = idx + 1
    /\ pc' = "loop"
    /\ UNCHANGED <<rows, output, req, reqRows, infoOK>>
    /\ UNCHANGED <<infoStatus, kindsAsked>>
    /\ UNCHANGED aggVars
    /\ UNCHANGED execVars
    /\ UNCHANGED walkVars

\* repo_data.append(row.to_dict() | {...}), with every field of the record
EmitRecord ==
    /\ pc = "aggregated"
    /\ repo_data' = Append(repo_data, Record(idx, fetched.info.body, agg))
    /\ idx' = idx + 1
    /\ pc' = "loop"
    /\ UNCHANGED <<rows, output, req, reqRows, infoOK>>
    /\ UNCHANGED <<infoStatus, kindsAsked>>
    /\ UNCHANGED aggVars
    /\ UNCHANGED execVars
    /\ UNCHANGED walkVars

----------------------------------------------------------------------------
(* Specifications *)

\* No repository is being aggregated (the page-level specifications).
NoFetch == [none |-> TRUE]
NoAgg == [none |-> TRUE]

\* The kinds of request get_gh_data has issued for a repository before its
\* first request of kind k.
PriorKinds(k) ==
    CASE k = "repo"   -> {}
      [] k = "count"  -> {"repo"}
      [] k = "latest" -> {"repo", "count"}
      [] k = "since"  -> {"repo", "count", "latest"}
      [] k = "all"    -> {"repo", "count", "latest", "since"}
      [] k = "search" -> {"repo", "count", "latest", "since", "all"}
      [] OTHER        -> {"repo", "count", "latest", "since", "all", "search"}

InputLists == UNION {[1..n -> Links] : n \in 1..MaxRows}

Init ==
    /\ rows \in InputLists
    /\ idx = 1
    /\ repo_data = <<>>
    /\ output = [written |-> FALSE, records |-> <<>>]
    /\ pc = "loop"
    /\ req = [kind |-> "none", page |-> 0, q |-> 0]
    /\ i = 0
    /\ nreq = 0
    /\ resp = NoResp
    /\ last = "none"
    /\ slept = NoSleep
    /\ allRL = TRUE
    /\ page = 0
    /\ acc = <<>>
    /\ asked = <<>>
    /\ got = <<>>
    /\ reqRows = {}
    /\ infoOK = <<>>
    /\ infoStatus = <<>>
    /\ kindsAsked = {}
    /\ fetched = NoFetch
    /\ agg = NoAgg

Next ==
    \/ NextRow
    \/ Attempt(RepoUpstream)
    \/ RepoInfoReturn
    \/ CountReturn
    \/ LatestReturn
    \/ PageReturn
    \/ SinceReturn
    \/ AllReturn
    \/ SearchReturn
    \/ Emit
    \/ WriteOutput

Spec == Init /\ [][Next]_vars

\* One call of _safe_request: the repository-info request of the first row,
\* or the first page request of a walk, under every sequence of attempt results.
GithubLink == Str(<<"https://", "github.com", "/", "o", "/", "r">>)

InitExec ==
    /\ rows = <<GithubLink>>
    /\ idx = 1
    /\ repo_data = <<>>
    /\ output = [written |-> FALSE, records |-> <<>>]
    /\ pc = "call"
    /\ req \in {[kind |-> "repo", page |-> 0, q |-> 0], [kind |-> "all", page |-> 1, q |-> 0]}
    /\ i = 0
    /\ nreq = 0
    /\ resp = NoResp
    /\ last = "none"
    /\ slept = NoSleep
    /\ allRL = TRUE
    /\ page = (IF req.kind = "all" THEN 1 ELSE 0)
    /\ acc = <<>>
    /\ asked = (IF req.kind = "all" THEN <<1>> ELSE <<>>)
    /\ got = <<>>
    /\ reqRows = (IF req.kind = "all" THEN {1} ELSE {})
    /\ infoOK = (IF req.kind = "all" THEN <<1>> ELSE <<>>)
    /\ infoStatus = (IF req.kind = "all" THEN <<[row |-> 1, status |-> 200]>> ELSE <<>>)
    /\ kindsAsked = {<<1, k>> : k \in PriorKinds(req.kind)}
    /\ fetched = NoFetch
    /\ agg = NoAgg

NextExec == Attempt(ExecUpstream)

SpecExec == InitExec /\ [][NextExec]_vars

\* One page walk of each kind, from its first page request to its return.
InitWalk ==
    /\ rows = <<GithubLink>>
    /\ idx = 1
    /\ repo_data = <<>>
    /\ output = [written |-> FALSE, records |-> <<>>]
    /\ pc = "call"
    /\ req \in {[kind |-> k, page |-> 1, q |-> 0] : k \in WalkKinds}
    /\ i = 0
    /\ nreq = 0
    /\ resp = NoResp
    /\ last = "none"
    /\ slept = NoSleep
    /\ allRL = TRUE
    /\ page = 1
    /\ acc = <<>>
    /\ asked = <<1>>
    /\ got = <<>>
    /\ reqRows = {1}
    /\ infoOK = <<1>>
    /\ infoStatus = <<[row |-> 1, status |-> 200]>>
    /\ kindsAsked = {<<1, k>> : k \in PriorKinds(req.kind)}
    /\ fetched = NoFetch
    /\ agg = NoAgg

NextWalk ==
    \/ Attempt(WalkUpstream)
    \/ PageReturn

SpecWalk == InitWalk /\ [][NextWalk]_vars

\* One repository whose requests have all returned: the aggregation of the
\* fetched responses and the assembly of its record.
Fetched(st, b) == [status |-> st, body |-> b]

LinkHeaders ==
    {<<>>,
     <<[rel |-> "next", page |-> 2], [rel |-> "last", page |-> 5]>>,
     <<[rel |-> "prev", page |-> 1], [rel |-> "first", page |-> 1]>>,
     <<[rel |-> "last", page |-> 7], [rel |-> "next", page |-> 2]>>,
     <<[rel |-> "last", page |-> 0]>>}

CommitDates ==
    {NoDate, BadDate, Iso(BoundaryDay - 1, SecondsPerDay - 1),
     Iso(BoundaryDay, 0), Iso(BoundaryDay + 1, 0)}

CommitIds ==
    {<<"alice", "bob", "c@x.org">>, <<"alice", "", "">>, <<"", "alice", "">>,
     <<"", "bob", "c@x.org">>, <<"", "", "c@x.org">>, <<"", "", "">>}

Commits == {Commit(id[1], id[2], id[3], d) : id \in CommitIds, d \in CommitDates}

CommitLists == UNION {[1..n -> Commits] : n \in 0..MaxCommits}

IssueCreated ==
    {NoDate, BadDate, Iso(BoundaryDay - 2, 0), Iso(BoundaryDay, 0),
     Iso(BoundaryDay, SecondsPerDay \div 4)}

IssueClosed ==
    {NoDate, BadDate, Iso(BoundaryDay - 1, SecondsPerDay - 1), Iso(BoundaryDay, 0),
     Iso(BoundaryDay + 2, 0), Iso(BoundaryDay + 4, 0)}

Issues == {Issue(c, x) : c \in IssueCreated, x \in IssueClosed}

IssueLists == UNION {[1..n -> Issues] : n \in 0..MaxIssues}

DefaultInfo ==
    [created_at |-> Iso(BoundaryDay - 10, 0), open_issues_count |-> Just(7),
     language |-> "GDScript", forks_count |-> 1, watchers_count |-> 2,
     stargazers_count |-> 3]

TwoCommits ==
    <<Commit("alice", "", "", Iso(BoundaryDay + 1, 0)),
      Commit("", "bob", "", Iso(BoundaryDay - 1, 0))>>

TwoIssues ==
    <<Issue(Iso(BoundaryDay - 2, 0), Iso(BoundaryDay, 0)),
      Issue(Iso(BoundaryDay, 0), Iso(BoundaryDay + 4, 0))>>

BaseFetch ==
    [info |-> Fetched(200, DefaultInfo),
     count |-> [status |-> 200, link |-> <<[rel |-> "next", page |-> 2], [rel |-> "last", page |-> 5]>>, body |-> <<TwoCommits[1]>>],
     latest |-> Fetched(200, <<TwoCommits[1]>>),
     since |-> Fetched(200, TwoCommits),
     all |-> Fetched(200, TwoCommits),
     total |-> Fetched(200, [total_count |-> 3]),
     open |-> Fetched(200, [total_count |-> 1]),
     closed_count |-> Fetched(200, [total_count |-> 2]),
     opened |-> Fetched(200, [total_count |-> 1]),
     closed |-> Fetched(200, [total_count |-> 2, items |-> TwoIssues])]

\* Every list of commits, served to both commit walks.
CommitScenarios ==
    {[BaseFetch EXCEPT !.since.body = L, !.all.body = L] : L \in CommitLists}

\* Every list of closed issues.
IssueScenarios ==
    {[BaseFetch EXCEPT !.closed.body = [total_count |-> Len(L), items |-> L]] :
        L \in IssueLists}

\* Every creation date of the repository with every latest commit.
DateScenarios ==
    {[BaseFetch EXCEPT !.info.body.created_at = c,
                       !.info.body.open_issues_count = o,
                       !.latest.body = l] :
        c \in {Iso(BoundaryDay - 10, 0), BadDate, NoDate},
        o \in {Just(7), Nothing},
        l \in {<<>>} \cup {<<Commit("alice", "", "", d)>> :
                  d \in {NoDate, BadDate, Iso(BoundaryDay + 1, 0), Iso(BoundaryDay - 11, 0),
                         Iso(BoundaryDay + 1, SecondsPerDay \div 2),
                         Iso(BoundaryDay - 11, SecondsPerDay \div 2)}}}

FetchKinds ==
    {"count", "latest", "since", "all", "total", "open", "closed_count", "opened", "closed"}

\* The answer r with status st: an error answer carries the error document.
WithStatus(k, r, st) ==
    IF st = 200 THEN r
    ELSE [r EXCEPT !.status = st,
                   !.body = IF k \in {"count", "latest", "since", "all"}
                            THEN ErrorDoc ELSE [message |-> -1]]

\* Every subset of the requests after the repository-info request failing.
FailureScenarios ==
    {[k \in DOMAIN BaseFetch |->
        IF k = "info" THEN BaseFetch[k]
        ELSE IF k = "count" THEN WithStatus(k, [BaseFetch[k] EXCEPT !.link = h], st[k])
        ELSE WithStatus(k, BaseFetch[k], st[k])] :
        st \in [FetchKinds -> {200, 404}], h \in LinkHeaders}

\* Every answer to the commit-count probe: status, Link header, body of at
\* most one commit (per_page is 1).
ProbeScenarios ==
    {[BaseFetch EXCEPT !.count =
         WithStatus("count", [status |-> 200, link |-> h, body |-> b], st)] :
        st \in {200, 404, 500}, h \in LinkHeaders, b \in {<<>>, <<TwoCommits[1]>>}}

\* One request answered 201, which _safe_request returns like a 200.
CreatedScenarios ==
    {[BaseFetch EXCEPT ![k].status = 201] : k \in FetchKinds}

\* fetched is one of the scenarios.
Scenarios ==
    \/ fetched \in CommitScenarios
    \/ fetched \in IssueScenarios
    \/ fetched \in DateScenarios
    \/ fetched \in FailureScenarios
    \/ fetched \in ProbeScenarios
    \/ fetched \in CreatedScenarios

InitAgg ==
    /\ rows = <<GithubLink>>
    /\ idx = 1
    /\ repo_data = <<>>
    /\ output = [written |-> FALSE, records |-> <<>>]
    /\ pc = "fetched"
    /\ req = [kind |-> "none", page |-> 0, q |-> 0]
    /\ i = 0
    /\ nreq = 0
    /\ resp = NoResp
    /\ last = "none"
    /\ slept = NoSleep
    /\ allRL = TRUE
    /\ page = 0
    /\ acc = <<>>
    /\ asked = <<>>
    /\ got = <<>>
    /\ reqRows = {1}
    /\ infoOK = <<1>>
    /\ infoStatus = <<[row |-> 1, status |-> 200]>>
    /\ kindsAsked = {<<1, k>> : k \in PriorKinds("closed") \cup {"closed"}}
    /\ Scenarios
    /\ agg = NoAgg

NextAgg ==
    \/ Aggregate
    \/ EmitRecord
    \/ WriteOutput

SpecAgg == InitAgg /\ [][NextAgg]_vars

----------------------------------------------------------------------------
(* Claims *)

RowsOf(recs) == [k \in 1..Len(recs) |-> recs[k].row]

RECURSIVE ServedItems(_, _)
\* The items the upstream served on the first n pages of the current walk.
ServedItems(g, n) == IF n = 0 THEN <<>> ELSE ServedItems(g, n - 1) \o g[n].items

NonSuccess(st) == st < 200 \/ st > 299

\* C1: under every behaviour of the upstream the run reaches the end of the
\* input and writes the output, holding one record for every row that passed
\* resolution and whose repository-info fetch succeeded; no error raised while
\* processing one repository halts the run.
C1_RunCompletes ==
    /\ pc # "raised"
    /\ pc = "done" => (output.written /\ RowsOf(output.records) = infoOK)

\* C2: one call of _safe_request returns an outcome and never raises: once the
\* call is over it has returned a response, the last one it obtained, whatever
\* the five attempts ended in.
C2_ReturnsOutcome ==
    pc # "call" => (pc = "ret" /\ resp.bound)

\* C3: one call of _safe_request issues at most 5 HTTP requests; a rate-limit
\* wait consumes the same attempt counter, so the call is over once five
\* requests are out, also when all five were answered by a rate-limited 403.
C3_AtMostFiveRequests ==
    /\ nreq <= 5
    /\ i = nreq
    /\ (pc = "call" => nreq < 5)
    /\ (allRL /\ nreq = 5) => (pc = "ret" /\ IsRateLimit(resp))

C3_Witness ==
    pc = "ret" /\ allRL /\ nreq = 5 /\ last = "resp" /\ resp.status = 403

\* C4: a rate-limited 403 is never handed back to the caller as the outcome
\* without a retry after its wait: the attempt a call returns from did not end
\* in a 403 with remaining quota '0' and a reset timestamp.
C4_RateLimitRetried ==
    ~(pc = "ret" /\ last = "resp" /\ IsRateLimit(resp))

\* C5: after a 403 with remaining quota '0' and a reset timestamp the wait is
\* exactly max(0, reset - now) + 1 seconds, so at least 1 second when the reset
\* is past and at least 5 when it is 5 seconds ahead; after any other 403 there
\* is no rate-limit wait.
C5_RateLimitWait ==
    (last = "resp" /\ resp.status = 403) =>
        IF resp.remaining = "0" /\ resp.reset # NoReset
        THEN /\ slept.ms = 1000 * (IF resp.reset > slept.now
                                   THEN resp.reset - slept.now + 1 ELSE 1)
             /\ slept.ms >= 1000
             /\ (resp.reset - slept.now = 5 => slept.ms >= 5000)
        ELSE slept.ms = 0

C5_Witness ==
    /\ last = "resp" /\ resp.status = 403 /\ resp.remaining = "0"
    /\ resp.reset = 5 /\ slept.now = 0 /\ slept.ms = 6000

\* C6: when every page request succeeds, a commit walk over a result set of N
\* items issues exactly floor(N/100) + 1 page requests and returns the N items
\* in upstream order (N = 250: 3 requests, the third page holding 50 items).
C6_WalkRequests ==
    (/\ pc = "walked"
     /\ req.kind \in {"since", "all"}
     /\ \A j \in 1..Len(got) : got[j].status = 200) =>
        LET N == Len(ServedItems(got, Len(got)))
        IN  /\ Len(asked) = (N \div 100) + 1
            /\ Len(got) = Len(asked)
            /\ acc = [j \in 1..N |-> j]
            /\ acc = ServedItems(got, Len(got))

C6_Witness ==
    /\ pc = "walked" /\ req.kind = "all"
    /\ \A j \in 1..Len(got) : got[j].status = 200
    /\ Len(acc) = 250 /\ Len(asked) = 3 /\ Len(got[3].items) = 50

\* C7: within one page walk the pages requested are 1, 2, 3, ... with no gap
\* and no repeat, and page k+1 is requested only after the outcome of page k
\* has been obtained and found to be a full page.
C7_PagesInOrder ==
    req.kind \in WalkKinds =>
        /\ asked = [j \in 1..Len(asked) |-> j]
        /\ Len(got) \in {Len(asked) - 1, Len(asked)}
        /\ (pc = "call" => (Len(got) = Len(asked) - 1 /\ req.page = Len(asked)))
        /\ \A j \in 1..(Len(asked) - 1) :
              /\ got[j].page = j
              /\ got[j].status = 200
              /\ Len(got[j].items) = 100

C7_Witness ==
    pc = "call" /\ req.kind = "since" /\ asked = <<1, 2, 3>> /\ Len(got) = 2

\* C8: if the outcome of page k is a non-2xx response the walk stops at once,
\* requests no page beyond k and returns the items of pages 1..k-1 (nothing
\* when k = 1).
C8_StopsOnFailure ==
    (/\ pc = "walked"
     /\ req.kind \in WalkKinds
     /\ NonSuccess(got[Len(got)].status)) =>
        /\ Len(asked) = Len(got)
        /\ asked[Len(asked)] = got[Len(got)].page
        /\ acc = ServedItems(got, Len(got) - 1)
        /\ (Len(got) = 1 => acc = <<>>)

C8_Witness ==
    /\ pc = "walked" /\ req.kind = "all"
    /\ Len(got) = 3 /\ got[3].status = 404 /\ Len(acc) = 200

\* C9: the closed-issue search walk requests at most 10 pages and returns at
\* most 1000 items, and it is over after its tenth page also when every page
\* the upstream serves is a full page.
C9_SearchWalkBounded ==
    req.kind = "closed" =>
        /\ Len(asked) <= 10
        /\ page <= 10
        /\ Len(acc) <= 1000
        /\ (Len(got) = 10 => pc = "walked")

C9_Witness ==
    /\ pc = "walked" /\ req.kind = "closed"
    /\ Len(asked) = 10 /\ Len(acc) = 1000
    /\ \A j \in 1..10 : Len(got[j].items) = 100

\* C10: a row whose source identifier is not a string or does not match the
\* owner/name pattern is skipped entirely: no HTTP request is issued for it,
\* no record is appended for it, and the loop goes on with the next row.
NoOwnerAndName ==
    { NaN,
      Str(<<"https://", "itch.io", "/", "o", "/", "r">>),
      Str(<<"https://", "github.com", "/", "o">>) }

C10_SkippedRowState ==
    \A r \in 1..Len(rows) :
        rows[r] \in NoOwnerAndName =>
            /\ r \notin reqRows
            /\ \A k \in 1..Len(repo_data) : repo_data[k].row # r
            /\ (idx = r => pc = "loop")

C10_SkippedRowStep ==
    (pc = "loop" /\ idx <= Len(rows) /\ rows[idx] \in NoOwnerAndName) =>
        (idx' = idx + 1 /\ pc' = "loop" /\ repo_data' = repo_data /\ reqRows' = reqRows)

C10_RowSkipped == [](C10_SkippedRowState) /\ [][C10_SkippedRowStep]_vars

C10_Witness ==
    /\ Len(rows) = 2 /\ rows[1] \in NoOwnerAndName
    /\ idx = 3 /\ reqRows = {2} /\ repo_data = <<[row |-> 2]>>

\* C11: if the repository-info request of a repository ends in a non-2xx
\* outcome the repository is skipped entirely: no record is appended for it,
\* no commit request and no issue-search request is issued for it, and the
\* loop goes on with the next row.
C11_InfoFailureSkips ==
    \A e \in 1..Len(infoStatus) :
        NonSuccess(infoStatus[e].status) =>
            LET r == infoStatus[e].row
            IN  /\ \A k \in 1..Len(repo_data) : repo_data[k].row # r
                /\ \A a \in kindsAsked : a[1] = r => a[2] = "repo"
                /\ idx > r
                /\ r \notin {infoOK[k] : k \in 1..Len(infoOK)}

C11_Witness ==
    /\ Len(rows) = 2 /\ Len(infoStatus) = 2
    /\ infoStatus[1] = [row |-> 1, status |-> 500]
    /\ pc = "done" /\ output.records = <<[row |-> 2]>>

\* C19: the records of the output follow the order of their rows in the input,
\* each input row yields at most one record, and a record once appended is
\* never changed or removed.
C19_OrderState ==
    /\ \A j, k \in 1..Len(repo_data) : j < k => repo_data[j].row < repo_data[k].row
    /\ \A k \in 1..Len(repo_data) : repo_data[k].row \in 1..Len(rows)
    /\ output.written => output.records = repo_data

C19_OrderStep ==
    /\ Len(repo_data') \in {Len(repo_data), Len(repo_data) + 1}
    /\ SubSeq(repo_data', 1, Len(repo_data)) = repo_data
    /\ output.written => output' = output

C19_OutputOrder == [](C19_OrderState) /\ [][C19_OrderStep]_vars

C19_Witness ==
    pc = "done" /\ output.records = <<[row |-> 1], [row |-> 2]>>

\* C20: processing is strictly sequential: requests are issued one at a time,
\* each for the repository the loop is at, and the loop moves to the next
\* repository only when no request of the current one is pending, so every
\* request of repository i is over before the first request of repository i+1.
C20_SeqState ==
    /\ \A a \in kindsAsked : a[1] <= idx
    /\ pc = "call" => (idx \in 1..Len(rows) /\ req.kind # "none")

C20_SeqStep ==
    /\ nreq' # nreq /\ nreq' # 0 =>
          /\ pc = "call" /\ nreq' = nreq + 1
          /\ kindsAsked' = kindsAsked \cup {<<idx, req.kind>>}
          /\ idx' = idx
    /\ kindsAsked' # kindsAsked => nreq' = nreq + 1
    /\ idx' # idx => (idx' = idx + 1 /\ pc # "call" /\ pc' = "loop" /\ nreq' = 0)

C20_Sequential == [](C20_SeqState) /\ [][C20_SeqStep]_vars

C20_Witness ==
    /\ idx = 2 /\ pc = "call" /\ nreq = 1
    /\ <<1, "closed">> \in kindsAsked /\ <<2, "repo">> \in kindsAsked

\* The record emitted for the repository being aggregated.
Rec == repo_data[1]

HasRecord == Len(repo_data) >= 1 /\ fetched # NoFetch /\ agg # NoAgg

IssueKinds == {"total", "open", "closed_count", "opened", "closed"}

CommitKinds == {"count", "latest", "since", "all"}

\* Every issue-search request failed while the repository-info and commit
\* requests succeeded.
OnlyIssueSearchesFail ==
    /\ fetched # NoFetch
    /\ \A k \in IssueKinds : NonSuccess(fetched[k].status)
    /\ \A k \in CommitKinds \cup {"info"} : fetched[k].status = 200

\* The commit-derived fields of the record hold what the commit responses give.
CommitFieldsComputed ==
    /\ Rec.commits = GetTotalCommitsCount(fetched.count)
    /\ Rec.dateOfLastCommit = GetLatestCommitDate(fetched.latest)
    /\ Rec.daysOfActivity =
           DaysOfActivity(fetched.info.body.created_at, GetLatestCommitDate(fetched.latest))
    /\ Rec.commitsInLast6Months = Just(CountInWindow(fetched.since.body))
    /\ Rec.committersParticipation = Just(Cardinality(UniqueCommitters(fetched.all.body)))

ZeroOrAbsent(x) == x = Just(0) \/ x = Nothing

\* C12 as stated: with every issue-search request failing and the others
\* succeeding, a record is emitted, its commit-derived fields hold the values
\* computed from the commit responses, and each of openIssues, closedIssues,
\* totalIssues, issuesOpenedLast6Months, AvgIssueCloseTime is zero or absent.
C12_IssueFieldsZeroOrAbsent ==
    (OnlyIssueSearchesFail /\ pc \in {"loop", "done"}) =>
        /\ Len(repo_data) = 1
        /\ CommitFieldsComputed
        /\ ZeroOrAbsent(Rec.openIssues)
        /\ ZeroOrAbsent(Rec.closedIssues)
        /\ ZeroOrAbsent(Rec.totalIssues)
        /\ ZeroOrAbsent(Rec.issuesOpenedLast6Months)
        /\ ZeroOrAbsent(Rec.AvgIssueCloseTime)

\* C12, amended: with every issue-search request failing and the others
\* succeeding, a record is emitted, its commit-derived fields hold the values
\* computed from the commit responses, closedIssues, totalIssues,
\* issuesOpenedLast6Months and AvgIssueCloseTime are zero, and openIssues is the
\* open_issues_count field of the repository-info document.
C12_PartialFailure ==
    (OnlyIssueSearchesFail /\ pc \in {"loop", "done"}) =>
        /\ Len(repo_data) = 1
        /\ CommitFieldsComputed
        /\ Rec.openIssues = fetched.info.body.open_issues_count
        /\ Rec.closedIssues = Just(0)
        /\ Rec.totalIssues = Just(0)
        /\ Rec.issuesOpenedLast6Months = Just(0)
        /\ Rec.AvgIssueCloseTime = Just(0)

C12_Witness ==
    /\ OnlyIssueSearchesFail
    /\ pc = "done"
    /\ Len(output.records) = 1
    /\ output.records[1].openIssues = Just(7)
    /\ output.records[1].commits = Just(5)
    /\ output.records[1].commitsInLast6Months = Just(1)
    /\ output.records[1].committersParticipation = Just(2)

CountFields ==
    {"commits", "commitsInLast6Months", "committersParticipation", "openIssues",
     "closedIssues", "totalIssues", "issuesOpenedLast6Months"}

RecordFields ==
    {"row", "language", "createdAt", "repoAge", "forks", "watchers", "stars",
     "openIssues", "closedIssues", "totalIssues", "issuesOpenedLast6Months",
     "AvgIssueCloseTime", "commits", "dateOfLastCommit", "daysOfActivity",
     "commitsInLast6Months", "committersParticipation"}

\* C13: in every emitted record, whatever subset of the commit and issue
\* requests failed, every derived count (commits, commitsInLast6Months,
\* committersParticipation, openIssues, closedIssues, totalIssues,
\* issuesOpenedLast6Months) holds a value rather than None, and every record
\* carries the same set of fields.
C13_CountsNeverMissing ==
    HasRecord =>
        /\ DOMAIN Rec = RecordFields
        /\ \A f \in CountFields : Rec[f].some

\* The closed issues fetched for the repository, as the aggregation reads them.
ClosedItems == OnePageWalk("closed", fetched.closed)

\* C14: when a repository has no qualifying closed issue, the AvgIssueCloseTime
\* of its record differs from the value written for a repository whose
\* qualifying issues average 0 days.
C14_AbsenceDistinguishable ==
    (HasRecord /\ CloseDeltas(ClosedItems) = <<>>) =>
        Rec.AvgIssueCloseTime # Just(0)

\* The positions of the commits of cs whose committer date is present and parses.
Dated(cs) == {k \in 1..Len(cs) : cs[k].date.kind = "iso"}

\* The positions of the commits of cs dated at or after the boundary
\* (the boundary is the start of day BoundaryDay).
DatedInWindow(cs) == {k \in Dated(cs) : cs[k].date.day >= BoundaryDay}

\* The first non-empty of author login, committer login, committer email,
\* "unknown".
FirstAvailable(c) ==
    LET q == <<c.author_login, c.committer_login, c.email, "unknown">>
        k == CHOOSE n \in 1..4 : q[n] # "" /\ \A m \in 1..(n - 1) : q[m] = ""
    IN  q[k]

\* C15 as stated: a commit whose committer date is missing or unparsable is
\* excluded from both commitsInLast6Months and the unique-committer set, and the
\* record is still emitted.
C15_UndatedExcludedFromBoth ==
    /\ pc # "raised"
    /\ (HasRecord /\ fetched.since.status = 200 /\ fetched.all.status = 200) =>
        /\ Rec.commitsInLast6Months = Just(Cardinality(DatedInWindow(fetched.since.body)))
        /\ agg.unique_committers =
               {FirstAvailable(fetched.all.body[k]) : k \in Dated(fetched.all.body)}
        /\ Rec.committersParticipation =
               Just(Cardinality({FirstAvailable(fetched.all.body[k]) :
                                    k \in Dated(fetched.all.body)}))

\* C15, amended: a commit whose committer date is missing or unparsable is
\* excluded from commitsInLast6Months, it is still counted in
\* committersParticipation (the unique-committer set is built from every fetched
\* commit, whatever its date), and the record is still emitted.
C15_UndatedExcludedFromWindow ==
    /\ pc # "raised"
    /\ (HasRecord /\ fetched.since.status = 200 /\ fetched.all.status = 200) =>
        /\ Rec.commitsInLast6Months = Just(Cardinality(DatedInWindow(fetched.since.body)))
        /\ agg.unique_committers =
               {FirstAvailable(fetched.all.body[k]) : k \in 1..Len(fetched.all.body)}
        /\ Rec.committersParticipation =
               Just(Cardinality({FirstAvailable(fetched.all.body[k]) :
                                    k \in 1..Len(fetched.all.body)}))

C15_Witness ==
    /\ pc = "done"
    /\ Len(output.records) = 1
    /\ fetched.since.status = 200
    /\ fetched.all.status = 200
    /\ fetched.since.body =
          <<Commit("alice", "", "", BadDate), Commit("", "bob", "c@x.org", Iso(BoundaryDay + 1, 0))>>
    /\ fetched.all.body = fetched.since.body
    /\ output.records[1].commitsInLast6Months = Just(1)
    /\ output.records[1].committersParticipation = Just(2)

\* The timestamp d is present, parses, and is at or after the boundary.
AtOrAfterBoundary(d) ==
    /\ d.kind = "iso"
    /\ (d.day > BoundaryDay \/ (d.day = BoundaryDay /\ d.sec >= 0))

\* Seconds from the timestamp c to the timestamp x.
SecondsBetween(c, x) == (x.day - c.day) * SecondsPerDay + (x.sec - c.sec)

\* The positions of the issues of its that have both timestamps, a closing
\* timestamp at or after the boundary and a non-negative delta.
QualifyingIssues(its) ==
    {k \in 1..Len(its) :
        /\ its[k].created_at.kind = "iso"
        /\ AtOrAfterBoundary(its[k].closed_at)
        /\ SecondsBetween(its[k].created_at, its[k].closed_at) >= 0}

\* C16: a commit whose committer timestamp is the boundary or later is counted
\* in commitsInLast6Months and one strictly before the boundary is not; an
\* average close time exists exactly when some closed issue with both timestamps
\* and a non-negative delta closes at the boundary or later.
C16_InclusiveLowerBound ==
    /\ (HasRecord /\ fetched.since.status = 200) =>
          Rec.commitsInLast6Months =
              Just(Cardinality({k \in 1..Len(fetched.since.body) :
                                   AtOrAfterBoundary(fetched.since.body[k].date)}))
    /\ (HasRecord /\ fetched.closed.status = 200) =>
          (agg.avg_issue_close_time_days.some <=>
              QualifyingIssues(fetched.closed.body.items) # {})

C16_Witness ==
    /\ pc = "done"
    /\ fetched.since.status = 200
    /\ fetched.closed.status = 200
    /\ fetched.since.body =
          <<Commit("alice", "", "", Iso(BoundaryDay, 0)),
            Commit("alice", "", "", Iso(BoundaryDay - 1, SecondsPerDay - 1))>>
    /\ fetched.closed.body.items = TwoIssues
    /\ Len(output.records) = 1
    /\ output.records[1].commitsInLast6Months = Just(1)
    /\ output.records[1].AvgIssueCloseTime = Just(300)

\* C17: the identity of every commit in the unique-committer set is the first
\* available of author login, committer login, committer email, "unknown"; a
\* commit with no login but an email is identified by the email; and
\* committersParticipation is the number of distinct identities.
C17_IdentityPriority ==
    (HasRecord /\ fetched.all.status = 200) =>
        LET cs == fetched.all.body
            ids == {FirstAvailable(cs[k]) : k \in 1..Len(cs)}
        IN  /\ agg.unique_committers = ids
            /\ \A k \in 1..Len(cs) :
                   (cs[k].author_login = "" /\ cs[k].committer_login = "" /\ cs[k].email # "")
                       => cs[k].email \in agg.unique_committers
            /\ Rec.committersParticipation = Just(Cardinality(ids))

C17_Witness ==
    /\ pc = "done"
    /\ fetched.all.status = 200
    /\ Len(fetched.all.body) = 2
    /\ fetched.all.body[1].author_login = ""
    /\ fetched.all.body[1].committer_login = ""
    /\ fetched.all.body[1].email = "c@x.org"
    /\ fetched.all.body[2].author_login = "alice"
    /\ fetched.all.body[2].committer_login = "bob"
    /\ agg.unique_committers = {"c@x.org", "alice"}
    /\ Len(output.records) = 1
    /\ output.records[1].committersParticipation = Just(2)

RECURSIVE SumDeltas(_, _)
\* The sum, in seconds, of the deltas of the issues of its at the positions Q.
SumDeltas(its, Q) ==
    IF Q = {} THEN 0
    ELSE LET k == CHOOSE n \in Q : TRUE
         IN  SecondsBetween(its[k].created_at, its[k].closed_at) + SumDeltas(its, Q \ {k})

\* h hundredths is num / den rounded to 2 decimals (a tie goes to the even side).
IsRounded(h, num, den) ==
    LET diff == 100 * num - h * den
        dist == IF diff >= 0 THEN diff ELSE 0 - diff
    IN  /\ 2 * dist <= den
        /\ (2 * dist = den => h % 2 = 0)

\* C18: the computed average issue close time is the mean, rounded to 2
\* decimals, of (closed - created) in days over exactly the fetched issues with
\* both timestamps, a closing timestamp at or after the boundary and a
\* non-negative delta; it is None when there is none; deltas of 2.0 and 4.0
\* days give 3.0.
C18_AverageCloseTime ==
    (HasRecord /\ fetched.closed.status = 200) =>
        LET its == fetched.closed.body.items
            Q == QualifyingIssues(its)
            avg == agg.avg_issue_close_time_days
        IN  /\ (Q = {} => avg = Nothing)
            /\ (Q # {} =>
                   /\ avg.some
                   /\ IsRounded(avg.v, SumDeltas(its, Q), SecondsPerDay * Cardinality(Q)))
            /\ (its = TwoIssues => avg = Just(300))

C18_Witness ==
    /\ pc = "done"
    /\ fetched.closed.status = 200
    /\ fetched.closed.body.items =
          <<Issue(Iso(BoundaryDay, SecondsPerDay \div 4), Iso(BoundaryDay, 0)),
            Issue(Iso(BoundaryDay, SecondsPerDay \div 4), Iso(BoundaryDay + 2, 0))>>
    /\ agg.avg_issue_close_time_days = Just(175)
    /\ Len(output.records) = 1
    /\ output.records[1].AvgIssueCloseTime = Just(175)

\* C22: within one call of _safe_request, when an attempt ends in a
\* transport-level failure or in a 403 that is not a rate-limit condition and
\* another attempt follows, the executor has slept 1.5 seconds after it.
C22_RetrySleeps ==
    (/\ pc = "call"
     /\ nreq > 0
     /\ (last = "exc" \/ (last = "resp" /\ resp.status = 403 /\ ~IsRateLimit(resp)))) =>
        slept.ms = 1500

\* C27: _safe_request returns at the first attempt answered with status 200 or
\* 201, so no request follows it in the call; and when it returns an outcome
\* with another status, exactly 5 attempts were made.
C27_FirstSuccessReturns ==
    /\ (last = "resp" /\ resp.status \in {200, 201}) => pc = "ret"
    /\ (pc = "ret" /\ resp.status \notin {200, 201}) => nreq = 5

C27_Witness ==
    /\ pc = "ret"
    /\ resp.status = 201
    /\ nreq = 3

\* C28: every outcome _safe_request returns early as a success (200 or 201) is
\* a success for the caller: a repository whose repository-info outcome is 200
\* or 201 is not skipped, and a walk whose pages were all answered 200 or 201
\* has accumulated every item served.
C28_SuccessAgreed ==
    /\ \A e \in 1..Len(infoStatus) :
           infoStatus[e].status \in {200, 201} =>
               infoStatus[e].row \in {infoOK[k] : k \in 1..Len(infoOK)}
    /\ (req.kind \in WalkKinds /\ \A g \in 1..Len(got) : got[g].status \in {200, 201}) =>
           acc = ServedItems(got, Len(got))

\* C23: _get_total_commits_count returns, for a response with status 200 (the
\* status it tests), the number of items of the body when there is no Link
\* header and otherwise the page number of the rel="last" link; for every other
\* status it returns None; the record's commits field is that value.
C23_LinkProbe ==
    (fetched # NoFetch /\ agg # NoAgg) =>
        LET r == fetched.count
            t == agg.total_commits
        IN  /\ (r.status # 200 => t = Nothing)
            /\ ((r.status = 200 /\ r.link = <<>>) => t = Just(Len(r.body)))
            /\ (r.status = 200 =>
                   \A k \in 1..Len(r.link) :
                       (r.link[k].rel = "last" /\ r.link[k].page > 0) =>
                           t = Just(r.link[k].page))
            /\ (Len(repo_data) >= 1 => Rec.commits = t)

C23_Witness ==
    /\ pc = "done"
    /\ fetched.count.status = 200
    /\ fetched.count.link = <<[rel |-> "last", page |-> 7], [rel |-> "next", page |-> 2]>>
    /\ Len(fetched.count.body) = 1
    /\ agg.total_commits = Just(7)
    /\ Len(output.records) = 1
    /\ output.records[1].commits = Just(7)

\* The latest commit date the commit endpoint delivered: the date of the first
\* commit of a 200 answer, NoDate when there is none.
LatestDelivered ==
    IF fetched.latest.status = 200 /\ Len(fetched.latest.body) >= 1
    THEN fetched.latest.body[1].date
    ELSE NoDate

\* C24: daysOfActivity is (latest commit timestamp - creation timestamp) in
\* whole days when both timestamps are available and parse, it is absent when
\* either is unavailable or unparsable, and computing it does not raise.
C24_ActivitySpan ==
    /\ pc # "raised"
    /\ HasRecord =>
          LET c == fetched.info.body.created_at
              l == LatestDelivered
          IN  IF c.kind = "iso" /\ l.kind = "iso"
              THEN Rec.daysOfActivity = Just(SecondsBetween(c, l) \div SecondsPerDay)
              ELSE Rec.daysOfActivity = Nothing

C24_Witness ==
    /\ pc = "done"
    /\ fetched.info.body.created_at = Iso(BoundaryDay - 10, 0)
    /\ fetched.latest.status = 200
    /\ Len(fetched.latest.body) = 1
    /\ fetched.latest.body[1].date = BadDate
    /\ Len(output.records) = 1
    /\ output.records[1].daysOfActivity = Nothing

\* C29: whenever the creation timestamp of the repository is present and
\* parses, the record carries a defined repoAge, whatever the latest commit
\* date is.
C29_RepoAgeFrame ==
    (HasRecord /\ fetched.info.body.created_at.kind = "iso") => Rec.repoAge.some

\* The responses f with every request of the family fam answered 404.
FailFamily(f, fam) ==
    [k \in DOMAIN f |-> IF k \in fam THEN WithStatus(k, f[k], 404) ELSE f[k]]

CommitFields ==
    {"commits", "dateOfLastCommit", "daysOfActivity", "commitsInLast6Months",
     "committersParticipation"}

IssueFields ==
    {"openIssues", "closedIssues", "totalIssues", "issuesOpenedLast6Months",
     "AvgIssueCloseTime"}

\* The record get_gh_data assembles from the responses f.
RecordOf(f) == Record(1, f.info.body, Aggregated(f))

\* C26: with every issue-search request of the repository failing the record
\* has the commit-derived fields it has now, with every commit request failing
\* it has the issue-derived fields it has now, and a record is emitted whatever
\* family failed.
C26_FamiliesIndependent ==
    /\ (fetched # NoFetch /\ pc \in {"loop", "done"}) => Len(repo_data) = 1
    /\ (HasRecord /\ pc = "done") =>
          /\ \A fld \in CommitFields : RecordOf(FailFamily(fetched, IssueKinds))[fld] = Rec[fld]
          /\ \A fld \in IssueFields : RecordOf(FailFamily(fetched, CommitKinds))[fld] = Rec[fld]

C26_Witness ==
    /\ pc = "done"
    /\ \A k \in CommitKinds : fetched[k].status = 404
    /\ \A k \in IssueKinds : fetched[k].status = 200
    /\ Len(output.records) = 1
    /\ output.records[1].commits = Nothing
    /\ output.records[1].totalIssues = Just(3)
    /\ output.records[1].AvgIssueCloseTime = Just(300)

\* The kinds of request of one repository, in the order of the pipeline.
AllKinds == {"repo", "count", "latest", "since", "all", "search", "closed"}

\* The call that may follow a finished call within one repository: the next
\* step of the pipeline, or the next page or the next search of the same step.
FollowsInPipeline(a, b) ==
    \/ a.kind = "repo" /\ b.kind = "count"
    \/ a.kind = "count" /\ b.kind = "latest"
    \/ a.kind = "latest" /\ b.kind = "since" /\ b.page = 1
    \/ a.kind = "since" /\ b.kind = "since" /\ b.page = a.page + 1
    \/ a.kind = "since" /\ b.kind = "all" /\ b.page = 1
    \/ a.kind = "all" /\ b.kind = "all" /\ b.page = a.page + 1
    \/ a.kind = "all" /\ b.kind = "search" /\ b.q = 1
    \/ a.kind = "search" /\ b.kind = "search" /\ b.q = a.q + 1
    \/ a.kind = "search" /\ a.q = 4 /\ b.kind = "closed" /\ b.page = 1
    \/ a.kind = "closed" /\ b.kind = "closed" /\ b.page = a.page + 1

C25_PipelineState ==
    /\ \A j, k \in 1..Len(repo_data) : j # k => repo_data[j].row # repo_data[k].row
    /\ \A k \in 1..Len(repo_data) :
          /\ repo_data[k].row < idx
          /\ \A kind \in AllKinds : <<repo_data[k].row, kind>> \in kindsAsked
    /\ \A a \in kindsAsked : a[1] <= idx /\ <<a[1], "repo">> \in kindsAsked

C25_PipelineStep ==
    /\ (pc # "call" /\ pc' = "call") =>
          /\ idx' = idx
          /\ IF pc = "loop"
             THEN req'.kind = "repo" /\ idx \notin reqRows
             ELSE FollowsInPipeline(req, req')
    /\ Len(repo_data') # Len(repo_data) =>
          /\ repo_data' = Append(repo_data, repo_data'[Len(repo_data')])
          /\ repo_data'[Len(repo_data')].row = idx
          /\ pc = "walked" /\ req.kind = "closed"
          /\ idx' = idx + 1
          /\ pc' = "loop"
    /\ kindsAsked' \subseteq kindsAsked \cup {<<idx, k>> : k \in AllKinds}
    /\ idx' >= idx

\* C25: for each repository the repository-info request is the first request
\* issued, the calls follow the order of the pipeline with no step entered a
\* second time, the record is appended exactly once, after the closed-issue
\* walk (the last fetch) has returned and every kind of request has been issued,
\* and no request for the repository follows its record.
C25_PipelineOrder == [](C25_PipelineState) /\ [][C25_PipelineStep]_vars

C25_Witness ==
    /\ pc = "done"
    /\ Len(rows) = 2
    /\ Len(output.records) = 2
    /\ \A r \in 1..2 : \A kind \in AllKinds : <<r, kind>> \in kindsAsked

====
